---- MODULE Spec2Model ----
(***************************************************************************)
(* QueueManagerBOG (src/app.py): a Flask-SocketIO dashboard whose state is *)
(* three relations (agents, status, assignment) edited by the socket       *)
(* events connect, update_cell and rename_agent.                           *)
(*                                                                         *)
(* Python strings are modelled as sequences of one-character strings, so   *)
(* that strip(), upper() and int() are computed character by character.    *)
(* Dynamically typed JSON values are tagged records (NoneV, StrV, IntV).   *)
(***************************************************************************)
EXTENDS Integers, Sequences, FiniteSets, TLC

VARIABLES
    backend,     \* "sqlite" | "postgresql": the engine DATABASE_URL selects
    agents,      \* relation agents: set of rows [name]
    status,      \* relation status: set of rows [agent_name, backlog, active, priority]
    assignment,  \* relation assignment: set of rows [agent_name, easy_to_handle, ...]
    connected,   \* connections currently registered with the Socket.IO server
    inbox,       \* per connection: the messages emitted to it, in emission order
    last,        \* the event handled last: sender, payload, outcome, the stored state
                 \* before it, its emissions and the messages it queued per connection
    nEvents,     \* number of update_cell / rename_agent events handled so far
    tables,      \* whether the three relations exist in the database
    call,        \* the fetch_state() call of a page request: where it stands, the
                 \* reads it has attempted and the init_db() calls it has made
    pending,     \* events received from two clients at once and not yet handled
    shadow,      \* the stored state had the pending events been handled in the
                 \* other order
    log          \* the events taken from pending, in the order they were handled

vars == <<backend, agents, status, assignment, connected, inbox, last, nEvents,
          tables, call, pending, shadow, log>>

(***************************************************************************)
(* Bounds of the model.                                                    *)
(***************************************************************************)
\* update_cell / rename_agent events handled in one behaviour of Spec
MaxEvents == 2
\* update_cell / rename_agent events handled in one behaviour of SpecEdit
MaxEdits == 1
\* reads one fetch_state() call is followed through
MaxReads == 3

Conns == {"c1", "c2"}

(***************************************************************************)
(* Dynamically typed values.                                               *)
(***************************************************************************)
NoneV == [t |-> "none", s |-> <<>>, n |-> 0]
StrV(s) == [t |-> "str", s |-> s, n |-> 0]
IntV(n) == [t |-> "int", s |-> <<>>, n |-> n]

\* Python truthiness of a value (None, "" and 0 are falsy)
Truthy(v) ==
    CASE v.t = "none" -> FALSE
      [] v.t = "str" -> v.s # <<>>
      [] v.t = "int" -> v.n # 0

(***************************************************************************)
(* Characters and strings.                                                 *)
(***************************************************************************)
Whitespace == {" ", "\t"}

DigitChars == <<"0", "1", "2", "3", "4", "5", "6", "7", "8", "9">>

IsDigit(ch) == \E i \in 1..10 : DigitChars[i] = ch

DigitVal(ch) == (CHOOSE i \in 1..10 : DigitChars[i] = ch) - 1

LowerChars ==
    <<"a", "b", "c", "d", "e", "f", "g", "h", "i", "j", "k", "l", "m",
      "n", "o", "p", "q", "r", "s", "t", "u", "v", "w", "x", "y", "z">>

UpperChars ==
    <<"A", "B", "C", "D", "E", "F", "G", "H", "I", "J", "K", "L", "M",
      "N", "O", "P", "Q", "R", "S", "T", "U", "V", "W", "X", "Y", "Z">>

\* Other characters of the model's alphabet, in code point order
\* (tab 9, space 32, '+' 43, '-' 45, '.' 46, then digits 48..57, 'A'.. 65, '_' 95, 'a'.. 97)
CodePoint(ch) ==
    CASE ch = "\t" -> 9
      [] ch = " " -> 32
      [] ch = "+" -> 43
      [] ch = "-" -> 45
      [] ch = "." -> 46
      [] IsDigit(ch) -> 48 + DigitVal(ch)
      [] \E i \in 1..26 : UpperChars[i] = ch ->
            64 + (CHOOSE i \in 1..26 : UpperChars[i] = ch)
      [] ch = "_" -> 95
      [] \E i \in 1..26 : LowerChars[i] = ch ->
            96 + (CHOOSE i \in 1..26 : LowerChars[i] = ch)

\* str.upper() on one character
UpperChar(ch) ==
    IF \E i \in 1..26 : LowerChars[i] = ch
    THEN UpperChars[CHOOSE i \in 1..26 : LowerChars[i] = ch]
    ELSE ch

\* str.upper()
Upper(s) == [i \in 1..Len(s) |-> UpperChar(s[i])]

RECURSIVE LStrip(_)
LStrip(s) == IF s # <<>> /\ Head(s) \in Whitespace THEN LStrip(Tail(s)) ELSE s

RECURSIVE RStrip(_)
RStrip(s) ==
    IF s # <<>> /\ s[Len(s)] \in Whitespace
    THEN RStrip(SubSeq(s, 1, Len(s) - 1))
    ELSE s

\* str.strip()
Strip(s) == RStrip(LStrip(s))

\* s < t in the order of ORDER BY name: code point by code point, a proper
\* prefix first
RECURSIVE StrLess(_, _)
StrLess(s, t) ==
    IF t = <<>> THEN FALSE
    ELSE IF s = <<>> THEN TRUE
    ELSE IF Head(s) = Head(t) THEN StrLess(Tail(s), Tail(t))
    ELSE CodePoint(Head(s)) < CodePoint(Head(t))

(***************************************************************************)
(* Python int: a sign and the decimal digits without leading zeros, so     *)
(* that values wider than the INTEGER column can be told apart.            *)
(***************************************************************************)
RECURSIVE DropZeros(_)
DropZeros(d) == IF d # <<>> /\ Head(d) = 0 THEN DropZeros(Tail(d)) ELSE d

RECURSIVE NatDigits(_)
NatDigits(n) == IF n = 0 THEN <<>> ELSE Append(NatDigits(n \div 10), n % 10)

RECURSIVE DigitsNat(_)
DigitsNat(d) ==
    IF d = <<>> THEN 0 ELSE 10 * DigitsNat(SubSeq(d, 1, Len(d) - 1)) + d[Len(d)]

ParseFail == [ok |-> FALSE, neg |-> FALSE, digits |-> <<>>]

\* int(str): surrounding whitespace, an optional sign, decimal digits with
\* single underscores allowed between digits
ParseStr(s) ==
    LET body0 == Strip(s)
        signed == body0 # <<>> /\ Head(body0) \in {"+", "-"}
        body == IF signed THEN Tail(body0) ELSE body0
        wellFormed ==
            /\ body # <<>>
            /\ \A i \in 1..Len(body) : IsDigit(body[i]) \/ body[i] = "_"
            /\ IsDigit(body[1]) /\ IsDigit(body[Len(body)])
            /\ \A i \in 1..(Len(body) - 1) : ~(body[i] = "_" /\ body[i + 1] = "_")
        ds == SelectSeq(body, IsDigit)
    IN  IF wellFormed
        THEN [ok |-> TRUE,
              neg |-> signed /\ Head(body0) = "-",
              digits |-> DropZeros([i \in 1..Len(ds) |-> DigitVal(ds[i])])]
        ELSE ParseFail

\* int(value): raises (ok = FALSE) for None and for a malformed string
PyInt(v) ==
    CASE v.t = "int" ->
            [ok |-> TRUE, neg |-> v.n < 0,
             digits |-> NatDigits(IF v.n < 0 THEN -v.n ELSE v.n)]
      [] v.t = "str" -> ParseStr(v.s)
      [] v.t = "none" -> ParseFail

\* try: num = int(value) / except: num = 0 / if num < 0: num = 0
\* The result is the digits of the non-negative num.
NormalizeNumber(value) ==
    LET p == PyInt(value)
    IN  IF ~p.ok THEN <<>>
        ELSE IF p.neg /\ p.digits # <<>> THEN <<>>
        ELSE p.digits

\* Largest value of an INTEGER column: int4 on PostgreSQL, 64-bit on SQLite
ColumnMaxDigits(be) ==
    IF be = "postgresql"
    THEN <<2, 1, 4, 7, 4, 8, 3, 6, 4, 7>>
    ELSE <<9, 2, 2, 3, 3, 7, 2, 0, 3, 6, 8, 5, 4, 7, 7, 5, 8, 0, 7>>

RECURSIVE DigitsLeq(_, _)
DigitsLeq(a, b) ==
    IF Len(a) # Len(b) THEN Len(a) < Len(b)
    ELSE IF a = <<>> THEN TRUE
    ELSE IF Head(a) # Head(b) THEN Head(a) < Head(b)
    ELSE DigitsLeq(Tail(a), Tail(b))

\* Whether the driver can bind num to an INTEGER column; otherwise the
\* statement raises (DataError / OverflowError)
FitsColumn(be, digits) == DigitsLeq(digits, ColumnMaxDigits(be))

(***************************************************************************)
(* The database: three relations with primary keys.                        *)
(***************************************************************************)
DEFAULT_AGENTS ==
    { <<"V", "i", "c", "t", "o", "r">>,
      <<"J", "u", "l", "i", "o">>,
      <<"F", "e", "l", "i", "p", "e">>,
      <<"C", "i", "n", "d", "y">> }

ALLOWED_STATUS_FIELDS == {"backlog", "active", "priority"}

ALLOWED_ASSIGN_FIELDS == {"easy_to_handle", "investigation", "autoclose_tickets"}

PRIORITY_VALUES == { <<>>, <<"P", "1">>, <<"P", "2">> }

\* status.insert().values(agent_name=name, backlog=0, active=0, priority=None)
StatusDefaultRow(name) ==
    [agent_name |-> name, backlog |-> 0, active |-> 0, priority |-> NoneV]

\* assignment.insert().values(agent_name=name, easy_to_handle=0, ...)
AssignmentDefaultRow(name) ==
    [agent_name |-> name, easy_to_handle |-> 0, investigation |-> 0,
     autoclose_tickets |-> 0]

EmptyDb == [agents |-> {}, status |-> {}, assignment |-> {}]

\* The stored state as one value
DB == [agents |-> agents, status |-> status, assignment |-> assignment]

\* select count() from agents where name == n
CountAgents(db, n) == Cardinality({a \in db.agents : a.name = n})

\* select count() from status where agent_name == n
CountStatus(db, n) == Cardinality({r \in db.status : r.agent_name = n})

\* select count() from assignment where agent_name == n
CountAssignment(db, n) == Cardinality({r \in db.assignment : r.agent_name = n})

\* init_db without the test that the agents relation is empty
init_db_Always(db) ==
    [agents |-> db.agents \cup {[name |-> n] : n \in DEFAULT_AGENTS},
     status |-> db.status \cup {StatusDefaultRow(n) : n \in DEFAULT_AGENTS},
     assignment |-> db.assignment \cup {AssignmentDefaultRow(n) : n \in DEFAULT_AGENTS}]

\* init_db: create_all, then seed the default agents when agents is empty
init_db(db) ==
    IF Cardinality(db.agents) = 0
    THEN [agents |-> db.agents \cup {[name |-> n] : n \in DEFAULT_AGENTS},
          status |-> db.status \cup {StatusDefaultRow(n) : n \in DEFAULT_AGENTS},
          assignment |->
              db.assignment \cup {AssignmentDefaultRow(n) : n \in DEFAULT_AGENTS}]
    ELSE db

\* SortByName with the order reversed (order_by(name.desc()))
RECURSIVE SortByName_Desc(_)
SortByName_Desc(S) ==
    IF S = {} THEN <<>>
    ELSE LET m == CHOOSE r \in S : \A o \in S : ~StrLess(r.name, o.name)
         IN  <<m>> \o SortByName_Desc(S \ {m})

\* The rows of S in ascending order of their name
RECURSIVE SortByName(_)
SortByName(S) ==
    IF S = {} THEN <<>>
    ELSE LET m == CHOOSE r \in S : \A o \in S : ~StrLess(o.name, r.name)
         IN  <<m>> \o SortByName(S \ {m})

\* func.coalesce(status.c.priority, "")
Coalesce(p) == IF p.t = "none" THEN <<>> ELSE p.s

\* fetch_state: agents JOIN status and agents JOIN assignment, ORDER BY name
fetch_state(db) ==
    [status |->
        SortByName({[name |-> p[1].name, backlog |-> p[2].backlog,
                     active |-> p[2].active, priority |-> Coalesce(p[2].priority)] :
                    p \in {q \in db.agents \X db.status : q[2].agent_name = q[1].name}}),
     assignment |->
        SortByName({[name |-> p[1].name, easy_to_handle |-> p[2].easy_to_handle,
                     investigation |-> p[2].investigation,
                     autoclose_tickets |-> p[2].autoclose_tickets] :
                    p \in {q \in db.agents \X db.assignment : q[2].agent_name = q[1].name}})]

(***************************************************************************)
(* Handler results: the stored state the handler leaves (after commit or   *)
(* rollback), how it ended, and what it emitted.                           *)
(*   outcome: "applied"  committed and broadcast                           *)
(*            "rejected" returned after emit("error_msg", ...)             *)
(*            "noop"     returned silently                                 *)
(*            "raised"   an exception left the handler: the transaction    *)
(*                       is rolled back and nothing is emitted             *)
(***************************************************************************)
ErrorMsg(text) == [event |-> "error_msg", to |-> "sender", data |-> [message |-> text]]

Rejected(db, text) == [db |-> db, outcome |-> "rejected", emits |-> <<ErrorMsg(text)>>]

Raised(db) == [db |-> db, outcome |-> "raised", emits |-> <<>>]

\* (v or ""): the string a following .strip() / .upper() is called on;
\* a truthy value that is no string has no such method (AttributeError)
OrEmpty(v) ==
    IF ~Truthy(v) THEN [raised |-> FALSE, s |-> <<>>]
    ELSE IF v.t = "str" THEN [raised |-> FALSE, s |-> v.s]
    ELSE [raised |-> TRUE, s |-> <<>>]

\* EnsureAgent that replaces the agent's rows by default rows
EnsureAgent_Replace(db, agent) ==
    [agents |-> db.agents \cup {[name |-> agent]},
     status |-> {r \in db.status : r.agent_name # agent} \cup {StatusDefaultRow(agent)},
     assignment |-> {r \in db.assignment : r.agent_name # agent}
                        \cup {AssignmentDefaultRow(agent)}]

\* Lines 159-166: create the agent's rows that do not exist yet
EnsureAgent(db, agent) ==
    LET d1 == IF CountAgents(db, agent) = 0
              THEN [db EXCEPT !.agents = @ \cup {[name |-> agent]}]
              ELSE db
        d2 == IF CountStatus(d1, agent) = 0
              THEN [d1 EXCEPT !.status = @ \cup {StatusDefaultRow(agent)}]
              ELSE d1
    IN  IF CountAssignment(d2, agent) = 0
        THEN [d2 EXCEPT !.assignment = @ \cup {AssignmentDefaultRow(agent)}]
        ELSE d2

\* val = (value or "").upper(); if val not in PRIORITY_VALUES: val = ""
\* the column gets val if val else None
NormalizePriority(s) ==
    LET val == Upper(s)
    IN  IF val \in PRIORITY_VALUES /\ val # <<>> THEN StrV(val) ELSE NoneV

\* UpdateField without its WHERE clause
UpdateField_NoWhere(rows, agent, field, x) == {[r EXCEPT ![field] = x] : r \in rows}

\* table.update().where(agent_name == agent).values({field: x})
UpdateField(rows, agent, field, x) ==
    {IF r.agent_name = agent THEN [r EXCEPT ![field] = x] ELSE r : r \in rows}

\* WriteCell whose aborted transaction keeps the rows it had inserted
WriteCell_NoRollback(be, db, agent, table, field, value) ==
    LET d == EnsureAgent(db, agent)
        cell == [event |-> "cell_updated", to |-> "all",
                 data |-> [agent |-> agent, table |-> table, field |-> field,
                           value |-> value]]
    IN  IF field = "priority"
        THEN LET p == OrEmpty(value)
                 stored == NormalizePriority(p.s)
             IN  IF p.raised THEN Raised(d)
                 ELSE [db |-> [d EXCEPT !.status = UpdateField(@, agent, "priority", stored)],
                       outcome |-> "applied",
                       emits |-> <<cell>>]
        ELSE LET num == NormalizeNumber(value)
                 stored == DigitsNat(num)
             IN  IF ~FitsColumn(be, num) THEN Raised(d)
                 ELSE [db |-> IF table = "status"
                              THEN [d EXCEPT !.status = UpdateField(@, agent, field, stored)]
                              ELSE [d EXCEPT !.assignment = UpdateField(@, agent, field, stored)],
                       outcome |-> "applied",
                       emits |-> <<cell>>]

\* Lines 157-187: the transaction and the broadcast
WriteCell(be, db, agent, table, field, value) ==
    LET d == EnsureAgent(db, agent)
        cell == [event |-> "cell_updated", to |-> "all",
                 data |-> [agent |-> agent, table |-> table, field |-> field,
                           value |-> value]]
    IN  IF field = "priority"
        THEN LET p == OrEmpty(value)
                 stored == NormalizePriority(p.s)
             IN  IF p.raised THEN Raised(db)
                 ELSE [db |-> [d EXCEPT !.status = UpdateField(@, agent, "priority", stored)],
                       outcome |-> "applied",
                       emits |-> <<cell>>]
        ELSE LET num == NormalizeNumber(value)
                 stored == DigitsNat(num)
             IN  IF ~FitsColumn(be, num) THEN Raised(db)
                 ELSE [db |-> IF table = "status"
                              THEN [d EXCEPT !.status = UpdateField(@, agent, field, stored)]
                              ELSE [d EXCEPT !.assignment = UpdateField(@, agent, field, stored)],
                       outcome |-> "applied",
                       emits |-> <<cell>>]

\* on_update_cell without the .strip() of the agent name
on_update_cell_NoStrip(be, db, data) ==
    LET a == OrEmpty(data.agent)
        agent == a.s
    IN  IF a.raised THEN Raised(db)
        ELSE IF agent = <<>> THEN Rejected(db, "Agent is required.")
        ELSE IF data.table \notin {"status", "assignment"}
        THEN Rejected(db, "Invalid table")
        ELSE IF data.table = "status" /\ data.field \notin ALLOWED_STATUS_FIELDS
        THEN Rejected(db, "Invalid field")
        ELSE IF data.table = "assignment" /\ data.field \notin ALLOWED_ASSIGN_FIELDS
        THEN Rejected(db, "Invalid field")
        ELSE WriteCell(be, db, agent, data.table, data.field, data.value)

\* on_update_cell(data), data = [table, agent, field, value]
on_update_cell(be, db, data) ==
    LET a == OrEmpty(data.agent)
        agent == Strip(a.s)
    IN  IF a.raised THEN Raised(db)
        ELSE IF agent = <<>> THEN Rejected(db, "Agent is required.")
        ELSE IF data.table \notin {"status", "assignment"}
        THEN Rejected(db, "Invalid table")
        ELSE IF data.table = "status" /\ data.field \notin ALLOWED_STATUS_FIELDS
        THEN Rejected(db, "Invalid field")
        ELSE IF data.table = "assignment" /\ data.field \notin ALLOWED_ASSIGN_FIELDS
        THEN Rejected(db, "Invalid field")
        ELSE WriteCell(be, db, agent, data.table, data.field, data.value)

\* RenameKey without its WHERE clause
RenameKey_NoWhere(rows, old, new) == {[r EXCEPT !.agent_name = new] : r \in rows}

\* table.update().where(agent_name == old).values(agent_name=new)
RenameKey(rows, old, new) ==
    {IF r.agent_name = old THEN [r EXCEPT !.agent_name = new] ELSE r : r \in rows}

\* RenameCascade without the update of assignment
RenameCascade_NoAssignment(be, db, old, new) ==
    IF be = "postgresql" /\ CountStatus(db, old) > 0 THEN Raised(db)
    ELSE [db |-> [agents |-> {IF a.name = old THEN [name |-> new] ELSE a : a \in db.agents},
                  status |-> {IF r.agent_name = old THEN [r EXCEPT !.agent_name = new] ELSE r :
                              r \in db.status},
                  assignment |-> db.assignment],
          outcome |-> "applied",
          emits |-> <<[event |-> "agent_renamed", to |-> "all",
                       data |-> [old_name |-> old, new_name |-> new]]>>]

\* Lines 204-209: the cascade and the broadcast.  PostgreSQL enforces
\* status.agent_name / assignment.agent_name REFERENCES agents.name at the end
\* of every statement; SQLite connections do not enforce foreign keys unless
\* asked to.  A primary key is enforced by both.
RenameCascade(be, db, old, new) ==
    LET referenced == CountStatus(db, old) + CountAssignment(db, old) > 0
        keyTaken == \/ CountStatus(db, old) > 0 /\ CountStatus(db, new) > 0
                    \/ CountAssignment(db, old) > 0 /\ CountAssignment(db, new) > 0
    IN  IF be = "postgresql" /\ referenced THEN Raised(db)
        ELSE IF keyTaken THEN Raised(db)
        ELSE [db |-> [agents |-> {IF a.name = old THEN [name |-> new] ELSE a : a \in db.agents},
                      status |-> RenameKey(db.status, old, new),
                      assignment |-> RenameKey(db.assignment, old, new)],
              outcome |-> "applied",
              emits |-> <<[event |-> "agent_renamed", to |-> "all",
                           data |-> [old_name |-> old, new_name |-> new]]>>]

\* on_rename_agent without the check that the original agent exists
on_rename_agent_NoSourceCheck(be, db, data) ==
    LET o == OrEmpty(data.old_name)
        n == OrEmpty(data.new_name)
        old == Strip(o.s)
        new == Strip(n.s)
    IN  IF o.raised \/ n.raised THEN Raised(db)
        ELSE IF old = <<>> \/ new = <<>>
        THEN Rejected(db, "Agent name cannot be empty.")
        ELSE IF old = new THEN [db |-> db, outcome |-> "noop", emits |-> <<>>]
        ELSE IF CountAgents(db, new) # 0 THEN Rejected(db, "Target name already exists.")
        ELSE [db |-> [agents |-> {IF a.name = old THEN [name |-> new] ELSE a : a \in db.agents},
                      status |-> db.status, assignment |-> db.assignment],
              outcome |-> "applied",
              emits |-> <<[event |-> "agent_renamed", to |-> "all",
                           data |-> [old_name |-> old, new_name |-> new]]>>]

\* on_rename_agent without the old == new return
on_rename_agent_NoSameCheck(be, db, data) ==
    LET o == OrEmpty(data.old_name)
        n == OrEmpty(data.new_name)
        old == Strip(o.s)
        new == Strip(n.s)
    IN  IF o.raised \/ n.raised THEN Raised(db)
        ELSE IF old = <<>> \/ new = <<>>
        THEN Rejected(db, "Agent name cannot be empty.")
        ELSE IF CountAgents(db, old) = 0 THEN Rejected(db, "Original agent not found.")
        ELSE IF CountAgents(db, new) # 0 THEN Rejected(db, "Target name already exists.")
        ELSE RenameCascade(be, db, old, new)

\* on_rename_agent without the .strip() of the two names
on_rename_agent_NoStrip(be, db, data) ==
    LET o == OrEmpty(data.old_name)
        n == OrEmpty(data.new_name)
        old == o.s
        new == n.s
    IN  IF o.raised \/ n.raised THEN Raised(db)
        ELSE IF old = <<>> \/ new = <<>>
        THEN Rejected(db, "Agent name cannot be empty.")
        ELSE IF old = new THEN [db |-> db, outcome |-> "noop", emits |-> <<>>]
        ELSE IF CountAgents(db, old) = 0 THEN Rejected(db, "Original agent not found.")
        ELSE IF CountAgents(db, new) # 0 THEN Rejected(db, "Target name already exists.")
        ELSE RenameCascade(be, db, old, new)

\* on_rename_agent(data), data = [old_name, new_name]
on_rename_agent(be, db, data) ==
    LET o == OrEmpty(data.old_name)
        n == OrEmpty(data.new_name)
        old == Strip(o.s)
        new == Strip(n.s)
    IN  IF o.raised \/ n.raised THEN Raised(db)
        ELSE IF old = <<>> \/ new = <<>>
        THEN Rejected(db, "Agent name cannot be empty.")
        ELSE IF old = new THEN [db |-> db, outcome |-> "noop", emits |-> <<>>]
        ELSE IF CountAgents(db, old) = 0 THEN Rejected(db, "Original agent not found.")
        ELSE IF CountAgents(db, new) # 0 THEN Rejected(db, "Target name already exists.")
        ELSE RenameCascade(be, db, old, new)

(***************************************************************************)
(* The server: one action per Socket.IO event.  A handler runs to its end  *)
(* before the next event is taken (gevent switches only on blocking I/O,   *)
(* and a handler does none between its first statement and its emit).      *)
(***************************************************************************)
NoData == <<>>

\* The messages an emission list puts on connection k's queue, c being the
\* sender: emit(...) goes to the sender, socketio.emit(..., broadcast=True)
\* to every registered connection
Delivered(emits, c, k, registry) ==
    LET mine == SelectSeq(emits, LAMBDA e : IF e.to = "sender" THEN k = c ELSE k \in registry)
    IN  [i \in 1..Len(mine) |-> [event |-> mine[i].event, data |-> mine[i].data]]

\* What a handled event leaves behind
Handled(c, op, data, res) ==
    /\ agents' = res.db.agents
    /\ status' = res.db.status
    /\ assignment' = res.db.assignment
    /\ inbox' = [k \in Conns |-> inbox[k] \o Delivered(res.emits, c, k, connected)]
    /\ last' = [op |-> op, sender |-> c, data |-> data, outcome |-> res.outcome,
                before |-> DB, emits |-> res.emits,
                sent |-> [k \in Conns |-> Delivered(res.emits, c, k, connected)]]
    /\ nEvents' = nEvents + 1
    /\ UNCHANGED <<backend, connected, tables, call>>

\* on_connect: emit("full_state", fetch_state()) to the new connection.  If
\* the relations are absent the read fails, init_db() creates and seeds them
\* and the read is made again (lines 101-104)
OnConnect(c) ==
    /\ c \notin connected
    /\ connected' = connected \cup {c}
    /\ LET db == IF tables THEN DB ELSE init_db(EmptyDb)
           snapshot == <<[event |-> "full_state", to |-> "sender", data |-> fetch_state(db)]>>
       IN  /\ agents' = db.agents
           /\ status' = db.status
           /\ assignment' = db.assignment
           /\ inbox' = [k \in Conns |-> inbox[k] \o Delivered(snapshot, c, k, connected')]
           /\ last' = [op |-> "connect", sender |-> c, data |-> NoData,
                       outcome |-> "applied", before |-> DB, emits |-> snapshot,
                       sent |-> [k \in Conns |-> Delivered(snapshot, c, k, connected')]]
    /\ tables' = TRUE
    /\ UNCHANGED <<backend, nEvents, call, pending, shadow, log>>

\* The error messages emitted before the transaction is opened
BeforeTransaction ==
    {"Agent is required.", "Invalid table", "Invalid field",
     "Agent name cannot be empty."}

\* What a handler does given whether the relations exist: without them the
\* first statement of its transaction raises, so only the returns that
\* precede `with engine.begin()` are left as they are
InTransaction(tab, db, res) ==
    IF tab THEN res
    ELSE IF res.outcome = "noop" THEN res
    ELSE IF res.outcome = "rejected" /\ res.emits[1].data.message \in BeforeTransaction
    THEN res
    ELSE Raised(db)

OnUpdateCell(c, data) ==
    /\ c \in connected
    /\ Handled(c, "update_cell", data,
               InTransaction(tables, DB, on_update_cell(backend, DB, data)))
    /\ UNCHANGED <<pending, shadow, log>>

OnRenameAgent(c, data) ==
    /\ c \in connected
    /\ Handled(c, "rename_agent", data,
               InTransaction(tables, DB, on_rename_agent(backend, DB, data)))
    /\ UNCHANGED <<pending, shadow, log>>

(***************************************************************************)
(* Event payloads.                                                         *)
(***************************************************************************)
Victor == <<"V", "i", "c", "t", "o", "r">>
Julio == <<"J", "u", "l", "i", "o">>
Cindy == <<"C", "i", "n", "d", "y">>
Vic == <<"V", "i", "c">>
Al == <<"A", "l">>
Zed == <<"Z", "e", "d">>

\* A missing key or JSON null where a string is expected (data.get gives None)
Null == "null"

Cell(agent, table, field, value) ==
    [agent |-> agent, table |-> table, field |-> field, value |-> value]

Names(old, new) == [old_name |-> old, new_name |-> new]

\* update_cell payloads of Spec
UpdateInputs ==
    { Cell(StrV(Victor), "status", "backlog", StrV(<<"5">>)),
      Cell(StrV(Victor), "status", "priority", StrV(<<"p", "1">>)),
      Cell(StrV(<<" ">> \o Vic \o <<"\t">>), "assignment", "investigation", StrV(<<"-", "4">>)),
      Cell(StrV(Vic), "status", "active", IntV(7)),
      Cell(StrV(Victor), "status", "priority", IntV(5)),
      Cell(StrV(<<" ">>), "status", "backlog", StrV(<<"5">>)),
      Cell(StrV(Cindy), "assignment", "backlog", StrV(<<"5">>)) }

\* rename_agent payloads of Spec and SpecEdit
RenameInputs ==
    { Names(StrV(Victor), StrV(Vic)),
      Names(StrV(Victor), StrV(Julio)),
      Names(StrV(Al), StrV(Vic)),
      Names(StrV(Cindy), StrV(<<" ">> \o Zed)),
      Names(NoneV, StrV(Vic)),
      Names(StrV(Victor), StrV(<<" ">> \o Victor)),
      Names(StrV(Al), StrV(Al)) }

\* Values of the value key
NumberInputs ==
    { NoneV, IntV(0), IntV(5), IntV(-3),
      StrV(<<>>), StrV(<<"5">>), StrV(<<" ", "1", "2", "\t">>), StrV(<<"-", "4">>),
      StrV(<<"+", "7">>), StrV(<<"1", "_", "0">>), StrV(<<"0", "0", "7">>),
      StrV(<<"a", "b", "c">>), StrV(<<"5", ".", "5">>), StrV(<<"5", "_">>),
      StrV(<<"1", "0", "0", "0", "0", "0", "0", "0", "0", "0",
             "0", "0", "0", "0", "0", "0", "0", "0", "0", "0", "0">>) }

PriorityInputs ==
    { NoneV, IntV(0), IntV(5),
      StrV(<<>>), StrV(<<"p", "1">>), StrV(<<"P", "1">>), StrV(<<"p", "2">>),
      StrV(<<"P", "2">>), StrV(<<"P", "3">>), StrV(<<" ", "P", "1">>),
      StrV(<<"h", "i", "g", "h">>) }

NumericCells ==
    {<<"status", "backlog">>, <<"status", "active">>,
     <<"assignment", "easy_to_handle">>, <<"assignment", "investigation">>,
     <<"assignment", "autoclose_tickets">>}

Tables == {"status", "assignment", "tickets", Null}

Fields == ALLOWED_STATUS_FIELDS \cup ALLOWED_ASSIGN_FIELDS \cup {"name", Null}

\* update_cell payloads of SpecEdit: every numeric cell with every number
\* input, the priority cell with every priority input, every empty agent and
\* every combination of table and field
EditInputs ==
    {Cell(StrV(Victor), tf[1], tf[2], v) : tf \in NumericCells, v \in NumberInputs}
    \cup {Cell(StrV(<<" ">> \o Vic), "assignment", "investigation", v) : v \in NumberInputs}
    \cup {Cell(StrV(a), "status", "priority", v) : a \in {Victor, Vic}, v \in PriorityInputs}
    \cup {Cell(a, t, "backlog", StrV(<<"5">>)) :
            a \in {NoneV, StrV(<<>>), StrV(<<" ", "\t">>)}, t \in {"status", "tickets"}}
    \cup {Cell(StrV(Victor), t, f, StrV(<<"5">>)) : t \in Tables, f \in Fields}

(***************************************************************************)
(* Specifications.                                                         *)
(***************************************************************************)
Init ==
    /\ backend \in {"sqlite", "postgresql"}
    /\ agents = init_db(EmptyDb).agents
    /\ status = init_db(EmptyDb).status
    /\ assignment = init_db(EmptyDb).assignment
    /\ connected = {}
    /\ inbox = [c \in Conns |-> <<>>]
    /\ last = [op |-> "init", sender |-> "", data |-> NoData, outcome |-> "applied",
               before |-> EmptyDb, emits |-> <<>>, sent |-> [k \in Conns |-> <<>>]]
    /\ nEvents = 0
    /\ tables = TRUE
    /\ call = [pc |-> "idle", reads |-> 0, inits |-> 0]
    /\ pending = {}
    /\ shadow = EmptyDb
    /\ log = <<>>

\* No fetch_state() call is between its first read and its return
Idle == call.pc \notin {"read", "except"}

Connect == \E c \in Conns : Idle /\ OnConnect(c)

UpdateCell == \E c \in Conns, data \in UpdateInputs : nEvents < MaxEvents /\ OnUpdateCell(c, data)

RenameAgent == \E c \in Conns, data \in RenameInputs : nEvents < MaxEvents /\ OnRenameAgent(c, data)

Next == Connect \/ UpdateCell \/ RenameAgent

\* Sessions of several events over a small set of payloads
Spec == Init /\ [][Next]_vars

EditCell == \E c \in Conns, data \in EditInputs : nEvents < MaxEdits /\ OnUpdateCell(c, data)

EditName == \E c \in Conns, data \in RenameInputs : nEvents < MaxEdits /\ OnRenameAgent(c, data)

NextEdit == Connect \/ EditCell \/ EditName

\* Few events over a wide set of payloads
SpecEdit == Init /\ [][NextEdit]_vars

(***************************************************************************)
(* fetch_state() step by step, as the page request of line 121 calls it,   *)
(* in a database whose relations may be dropped from outside and whose     *)
(* reads may fail.  One step is one database operation of the call:        *)
(*     try: <read>                                                         *)
(*     except (OperationalError, ProgrammingError):                        *)
(*         init_db(); return fetch_state()                                 *)
(* The except clause catches every OperationalError and ProgrammingError:  *)
(* a read of absent relations always raises one, and a read of present     *)
(* relations may raise one for a reason that init_db() does not remove     *)
(* (connection lost, database locked, column missing).                     *)
(***************************************************************************)
\* The record an operation that is not a socket event leaves in last
Internal(op, before) ==
    [op |-> op, sender |-> "", data |-> NoData, outcome |-> "applied",
     before |-> before, emits |-> <<>>, sent |-> [k \in Conns |-> <<>>]]

\* The relations are dropped from outside (the SQLite file of line 36 is
\* lost, the schema is reset)
DropTables ==
    /\ tables
    /\ tables' = FALSE
    /\ agents' = {}
    /\ status' = {}
    /\ assignment' = {}
    /\ last' = Internal("drop", DB)
    /\ UNCHANGED <<backend, connected, inbox, nEvents, call, pending, shadow, log>>

\* index(): state = fetch_state()
FetchBegin ==
    /\ Idle
    /\ call' = [pc |-> "read", reads |-> 0, inits |-> 0]
    /\ UNCHANGED <<backend, agents, status, assignment, connected, inbox, last, nEvents,
                   tables, pending, shadow, log>>

\* Lines 82-100: the two SELECTs return
FetchReadOk ==
    /\ call.pc = "read"
    /\ call.reads < MaxReads
    /\ tables
    /\ call' = [call EXCEPT !.pc = "returned", !.reads = @ + 1]
    /\ UNCHANGED <<backend, agents, status, assignment, connected, inbox, last, nEvents,
                   tables, pending, shadow, log>>

\* Lines 82-101: a SELECT raises OperationalError or ProgrammingError
FetchReadFails ==
    /\ call.pc = "read"
    /\ call.reads < MaxReads
    /\ call' = [call EXCEPT !.pc = "except", !.reads = @ + 1]
    /\ UNCHANGED <<backend, agents, status, assignment, connected, inbox, last, nEvents,
                   tables, pending, shadow, log>>

\* Lines 103-104: init_db() returns and fetch_state() is called again
FetchRecover ==
    /\ call.pc = "except"
    /\ LET db == init_db(IF tables THEN DB ELSE EmptyDb)
       IN  /\ agents' = db.agents
           /\ status' = db.status
           /\ assignment' = db.assignment
    /\ tables' = TRUE
    /\ call' = [call EXCEPT !.pc = "read", !.inits = @ + 1]
    /\ last' = Internal("init_db", DB)
    /\ UNCHANGED <<backend, connected, inbox, nEvents, pending, shadow, log>>

\* Line 103: init_db() raises, and the exception leaves fetch_state()
FetchRecoverFails ==
    /\ call.pc = "except"
    /\ call' = [call EXCEPT !.pc = "raised", !.inits = @ + 1]
    /\ UNCHANGED <<backend, agents, status, assignment, connected, inbox, last, nEvents,
                   tables, pending, shadow, log>>

ReadUpdateCell ==
    \E c \in Conns, data \in UpdateInputs : Idle /\ nEvents < MaxEdits /\ OnUpdateCell(c, data)

ReadRenameAgent ==
    \E c \in Conns, data \in RenameInputs : Idle /\ nEvents < MaxEdits /\ OnRenameAgent(c, data)

NextRead ==
    \/ Connect
    \/ ReadUpdateCell
    \/ ReadRenameAgent
    \/ DropTables
    \/ FetchBegin
    \/ FetchReadOk
    \/ FetchReadFails
    \/ FetchRecover
    \/ FetchRecoverFails

\* Page requests among a few events, with storage faults
SpecRead == Init /\ [][NextRead]_vars

(***************************************************************************)
(* Two update_cell events sent by two clients at once.  The server takes   *)
(* them from the transport in either order and handles each to its end     *)
(* before it takes the other.  shadow follows the order not taken: the     *)
(* second event handled first, then the first.                             *)
(***************************************************************************)
\* update_cell payloads of the two events
PairInputs ==
    { Cell(StrV(Victor), "status", "backlog", StrV(<<"5">>)),
      Cell(StrV(<<" ">> \o Victor), "status", "backlog", IntV(7)),
      Cell(StrV(Vic), "status", "active", StrV(<<"3">>)),
      Cell(StrV(Vic), "status", "priority", StrV(<<"p", "2">>)),
      Cell(StrV(Vic), "status", "priority", IntV(5)) }

\* No pair of events has been sent yet
NoPair == pending = {} /\ log = <<>>

PairUpdateCell ==
    \E c \in Conns, data \in UpdateInputs : NoPair /\ nEvents < MaxEdits /\ OnUpdateCell(c, data)

PairRenameAgent ==
    \E c \in Conns, data \in RenameInputs : NoPair /\ nEvents < MaxEdits /\ OnRenameAgent(c, data)

\* Two connected clients each send an update_cell event
SendPair ==
    \E c1 \in connected, c2 \in connected, d1 \in PairInputs, d2 \in PairInputs :
        /\ NoPair
        /\ c1 # c2
        /\ pending' = {[sender |-> c1, data |-> d1], [sender |-> c2, data |-> d2]}
        /\ shadow' = DB
        /\ UNCHANGED <<backend, agents, status, assignment, connected, inbox, last, nEvents,
                       tables, call, log>>

\* on_update_cell runs for one of the pending events
HandlePending ==
    \E e \in pending :
        LET res == InTransaction(tables, DB, on_update_cell(backend, DB, e.data))
            first == IF log = <<>> THEN CHOOSE o \in pending : o # e ELSE log[1]
        IN  /\ Handled(e.sender, "update_cell", e.data, res)
            /\ pending' = pending \ {e}
            /\ log' = Append(log, [sender |-> e.sender, data |-> e.data,
                                   outcome |-> res.outcome, registry |-> connected,
                                   sent |-> [k \in Conns |->
                                               Delivered(res.emits, e.sender, k, connected)]])
            /\ shadow' = InTransaction(tables, shadow,
                                       on_update_cell(backend, shadow, first.data)).db

NextPair == Connect \/ PairUpdateCell \/ PairRenameAgent \/ SendPair \/ HandlePending

\* A few events, then two events at once
SpecPair == Init /\ [][NextPair]_vars

(***************************************************************************)
(* A client's view, as the dashboard page keeps it: the full_state         *)
(* snapshot received on connect, then every cell_updated value taken as    *)
(* the absolute value of its cell and every agent_renamed as a key change. *)
(* Cells hold the text the page shows.                                     *)
(***************************************************************************)
RenderNat(n) ==
    IF n = 0 THEN <<"0">>
    ELSE [i \in 1..Len(NatDigits(n)) |-> DigitChars[NatDigits(n)[i] + 1]]

\* The text of a JSON value in a cell: null shows empty
Render(v) ==
    CASE v.t = "none" -> <<>>
      [] v.t = "str" -> v.s
      [] v.t = "int" -> IF v.n < 0 THEN <<"-">> \o RenderNat(-v.n) ELSE RenderNat(v.n)

EmptyView == [status |-> <<>>, assignment |-> <<>>]

StatusViewDefault == [backlog |-> <<"0">>, active |-> <<"0">>, priority |-> <<>>]

AssignmentViewDefault ==
    [easy_to_handle |-> <<"0">>, investigation |-> <<"0">>, autoclose_tickets |-> <<"0">>]

\* The view a full_state snapshot gives
SnapshotView(state) ==
    [status |->
        [n \in {state.status[i].name : i \in DOMAIN state.status} |->
            LET r == state.status[CHOOSE i \in DOMAIN state.status : state.status[i].name = n]
            IN  [backlog |-> RenderNat(r.backlog), active |-> RenderNat(r.active),
                 priority |-> r.priority]],
     assignment |->
        [n \in {state.assignment[i].name : i \in DOMAIN state.assignment} |->
            LET r == state.assignment[CHOOSE i \in DOMAIN state.assignment :
                                        state.assignment[i].name = n]
            IN  [easy_to_handle |-> RenderNat(r.easy_to_handle),
                 investigation |-> RenderNat(r.investigation),
                 autoclose_tickets |-> RenderNat(r.autoclose_tickets)]]]

\* rows with a row for agent, a default one if it had none
WithRow(rows, agent, default) ==
    IF agent \in DOMAIN rows THEN rows
    ELSE [n \in DOMAIN rows \cup {agent} |-> IF n = agent THEN default ELSE rows[n]]

\* cell_updated {agent, table, field, value}
ApplyCellUpdated(view, d) ==
    LET st == WithRow(view.status, d.agent, StatusViewDefault)
        as == WithRow(view.assignment, d.agent, AssignmentViewDefault)
    IN  IF d.table = "status"
        THEN [status |-> [st EXCEPT ![d.agent][d.field] = Render(d.value)], assignment |-> as]
        ELSE [status |-> st, assignment |-> [as EXCEPT ![d.agent][d.field] = Render(d.value)]]

Rekey(rows, old, new) ==
    IF old \in DOMAIN rows
    THEN [n \in (DOMAIN rows \ {old}) \cup {new} |-> IF n = new THEN rows[old] ELSE rows[n]]
    ELSE rows

\* agent_renamed {old_name, new_name}
ApplyRenamed(view, d) ==
    [status |-> Rekey(view.status, d.old_name, d.new_name),
     assignment |-> Rekey(view.assignment, d.old_name, d.new_name)]

ApplyMessage(view, m) ==
    CASE m.event = "full_state" -> SnapshotView(m.data)
      [] m.event = "cell_updated" -> ApplyCellUpdated(view, m.data)
      [] m.event = "agent_renamed" -> ApplyRenamed(view, m.data)
      [] OTHER -> view

RECURSIVE ViewAfter(_, _)
ViewAfter(view, msgs) ==
    IF msgs = <<>> THEN view ELSE ViewAfter(ApplyMessage(view, Head(msgs)), Tail(msgs))

\* The view of connection c once every message emitted to it is delivered
View(c) == ViewAfter(EmptyView, inbox[c])

(***************************************************************************)
(* Vocabulary of the properties.                                           *)
(***************************************************************************)
\* The agent name an event's name argument denotes
NameOf(v) == Strip(OrEmpty(v).s)

\* An agent argument that is missing, empty or whitespace only
Blank(v) == v.t = "none" \/ (v.t = "str" /\ \A i \in 1..Len(v.s) : v.s[i] \in Whitespace)

\* The (table, field) pairs that address a cell
ValidCells ==
    {<<"status", f>> : f \in ALLOWED_STATUS_FIELDS}
    \cup {<<"assignment", f>> : f \in ALLOWED_ASSIGN_FIELDS}

\* An update_cell payload that passes validation
ValidEdit(data) == ~Blank(data.agent) /\ <<data.table, data.field>> \in ValidCells

\* The rows of relation table of db keyed by name
RowsOf(db, table, name) ==
    IF table = "status" THEN {r \in db.status : r.agent_name = name}
    ELSE {r \in db.assignment : r.agent_name = name}

\* The last event queued exactly one error_msg, for its sender only
OnlyErrorToSender ==
    /\ Len(last.sent[last.sender]) = 1
    /\ last.sent[last.sender][1].event = "error_msg"
    /\ \A k \in Conns \ {last.sender} : last.sent[k] = <<>>

(***************************************************************************)
(* C1: in every reachable state every agents row has exactly one status    *)
(* row and exactly one assignment row keyed by its name, and every status  *)
(* and assignment row is keyed by the name of an existing agent.           *)
(***************************************************************************)
C1_OneToOne ==
    /\ \A a \in agents : CountStatus(DB, a.name) = 1 /\ CountAssignment(DB, a.name) = 1
    /\ \A r \in status : CountAgents(DB, r.agent_name) = 1
    /\ \A r \in assignment : CountAgents(DB, r.agent_name) = 1

\* An agent created by an edit, then a rename applied
C1_Witness ==
    /\ last.op = "rename_agent" /\ last.outcome = "applied"
    /\ Cardinality(agents) = Cardinality(DEFAULT_AGENTS) + 1
    /\ [name |-> Vic] \in agents

(***************************************************************************)
(* C2: for every successful update_cell the value carried by the           *)
(* cell_updated broadcast is the normalized value stored in the addressed  *)
(* cell (compared as the text both show).                                  *)
(***************************************************************************)
C2_BroadcastCarriesStoredValue ==
    (last.op = "update_cell" /\ last.outcome = "applied") =>
        \A r \in RowsOf(DB, last.data.table, NameOf(last.data.agent)) :
            Render(last.emits[1].data.value)
                = IF last.data.field = "priority"
                  THEN Coalesce(r.priority)
                  ELSE RenderNat(r[last.data.field])

(***************************************************************************)
(* C3: once every event is handled and every emitted message delivered,    *)
(* the view of each connected client equals the stored state fetch_state   *)
(* returns.                                                                *)
(***************************************************************************)
C3_ViewsConverge ==
    \A c \in connected : View(c) = SnapshotView(fetch_state(DB))

(***************************************************************************)
(* C4: a rename_agent(old, new) that succeeded had old existing, new not   *)
(* existing and old # new; afterwards the agent and both its rows are      *)
(* keyed by new, no row of any relation is keyed by old, the rows of old   *)
(* keep their field values and all other rows are unchanged.               *)
(***************************************************************************)
C4_RenameCascades ==
    (last.op = "rename_agent" /\ last.outcome = "applied") =>
        LET old == NameOf(last.data.old_name)
            new == NameOf(last.data.new_name)
            b == last.before
        IN  /\ old # new /\ CountAgents(b, old) = 1 /\ CountAgents(b, new) = 0
            /\ CountAgents(DB, new) = 1 /\ CountStatus(DB, new) = 1
            /\ CountAssignment(DB, new) = 1
            /\ CountAgents(DB, old) = 0 /\ CountStatus(DB, old) = 0
            /\ CountAssignment(DB, old) = 0
            /\ \A r \in b.status : r.agent_name = old =>
                    \E q \in status : /\ q.agent_name = new /\ q.backlog = r.backlog
                                      /\ q.active = r.active /\ q.priority = r.priority
            /\ \A r \in b.assignment : r.agent_name = old =>
                    \E q \in assignment :
                        /\ q.agent_name = new /\ q.easy_to_handle = r.easy_to_handle
                        /\ q.investigation = r.investigation
                        /\ q.autoclose_tickets = r.autoclose_tickets
            /\ {a \in agents : a.name # new} = {a \in b.agents : a.name # old}
            /\ {r \in status : r.agent_name # new} = {r \in b.status : r.agent_name # old}
            /\ {r \in assignment : r.agent_name # new}
                    = {r \in b.assignment : r.agent_name # old}

\* A rename applied to an agent whose backlog had been edited
C4_Witness ==
    /\ last.op = "rename_agent" /\ last.outcome = "applied"
    /\ \E r \in status : r.agent_name = NameOf(last.data.new_name) /\ r.backlog = 5

(***************************************************************************)
(* C5: a rename_agent(old, new) with old # new where old is no existing    *)
(* agent or new is an existing one leaves the three relations unchanged,   *)
(* emits exactly one error_msg, to the requesting connection only, and no  *)
(* agent_renamed broadcast.                                                *)
(***************************************************************************)
C5_RenameRejected ==
    LET old == NameOf(last.data.old_name)
        new == NameOf(last.data.new_name)
    IN  (/\ last.op = "rename_agent"
         /\ old # new
         /\ CountAgents(last.before, old) = 0 \/ CountAgents(last.before, new) > 0) =>
            /\ DB = last.before
            /\ last.outcome = "rejected"
            /\ OnlyErrorToSender

\* A rename onto an existing name, sent while another client is connected
C5_Witness ==
    /\ last.op = "rename_agent"
    /\ connected = Conns
    /\ CountAgents(last.before, NameOf(last.data.old_name)) = 1
    /\ CountAgents(last.before, NameOf(last.data.new_name)) = 1
    /\ NameOf(last.data.old_name) # NameOf(last.data.new_name)

(***************************************************************************)
(* C6: an update_cell whose agent is empty or whitespace only, whose table *)
(* is neither status nor assignment, or whose field is not allowed for its *)
(* table leaves the stored state unchanged, sends one error_msg to the     *)
(* sender only and broadcasts nothing.                                     *)
(***************************************************************************)
C6_InvalidEditRejected ==
    (last.op = "update_cell" /\ ~ValidEdit(last.data)) =>
        /\ DB = last.before
        /\ last.outcome = "rejected"
        /\ OnlyErrorToSender

\* A whitespace-only agent, sent while another client is connected
C6_Witness ==
    /\ last.op = "update_cell"
    /\ connected = Conns
    /\ last.data.agent.t = "str" /\ last.data.agent.s # <<>> /\ Blank(last.data.agent)

(***************************************************************************)
(* C7: a valid update_cell on a numeric field stores the integer parse of  *)
(* the value when that is a non-negative integer and 0 when the value is   *)
(* negative or cannot be parsed; every stored numeric field is a           *)
(* non-negative integer.                                                   *)
(***************************************************************************)
C7_NumberStored ==
    /\ (last.op = "update_cell" /\ ValidEdit(last.data) /\ last.data.field # "priority") =>
            \E r \in RowsOf(DB, last.data.table, NameOf(last.data.agent)) :
                NatDigits(r[last.data.field]) = NormalizeNumber(last.data.value)
    /\ \A r \in status : r.backlog >= 0 /\ r.active >= 0
    /\ \A r \in assignment :
            r.easy_to_handle >= 0 /\ r.investigation >= 0 /\ r.autoclose_tickets >= 0

(***************************************************************************)
(* C8: after a valid update_cell on (status, priority) the stored priority *)
(* is P1 if the input equals "P1" case-insensitively, P2 if it equals "P2" *)
(* case-insensitively, and none for every other input, a non-string one    *)
(* included.                                                               *)
(***************************************************************************)
ExpectedPriority(v) ==
    IF v.t = "str" /\ v.s \in {<<"P", "1">>, <<"p", "1">>} THEN StrV(<<"P", "1">>)
    ELSE IF v.t = "str" /\ v.s \in {<<"P", "2">>, <<"p", "2">>} THEN StrV(<<"P", "2">>)
    ELSE NoneV

C8_PriorityStored ==
    /\ (last.op = "update_cell" /\ ValidEdit(last.data) /\ last.data.field = "priority") =>
            \E r \in status : /\ r.agent_name = NameOf(last.data.agent)
                              /\ r.priority = ExpectedPriority(last.data.value)
    /\ \A r \in status : r.priority \in {NoneV, StrV(<<"P", "1">>), StrV(<<"P", "2">>)}

(***************************************************************************)
(* C9: a valid update_cell naming an agent that does not exist creates     *)
(* exactly one agents, one status and one assignment row for that name;    *)
(* afterwards the addressed field holds the normalized value and the       *)
(* agent's other five fields their defaults.  A valid update_cell naming   *)
(* an existing agent creates no rows.                                      *)
(***************************************************************************)
\* row r holds value x in field f when f is the addressed field, else default d
FieldIs(r, table, f, d, x) ==
    r[f] = IF last.data.table = table /\ last.data.field = f THEN x ELSE d

C9_EditCreatesAgent ==
    (last.op = "update_cell" /\ ValidEdit(last.data)) =>
        LET name == NameOf(last.data.agent)
            b == last.before
            num == DigitsNat(NormalizeNumber(last.data.value))
        IN  IF CountAgents(b, name) = 0
            THEN /\ agents = b.agents \cup {[name |-> name]}
                 /\ {r \in status : r.agent_name # name} = b.status
                 /\ {r \in assignment : r.agent_name # name} = b.assignment
                 /\ CountStatus(DB, name) = 1 /\ CountAssignment(DB, name) = 1
                 /\ \A r \in RowsOf(DB, "status", name) :
                        /\ FieldIs(r, "status", "backlog", 0, num)
                        /\ FieldIs(r, "status", "active", 0, num)
                        /\ FieldIs(r, "status", "priority", NoneV,
                                   ExpectedPriority(last.data.value))
                 /\ \A r \in RowsOf(DB, "assignment", name) :
                        /\ FieldIs(r, "assignment", "easy_to_handle", 0, num)
                        /\ FieldIs(r, "assignment", "investigation", 0, num)
                        /\ FieldIs(r, "assignment", "autoclose_tickets", 0, num)
            ELSE /\ agents = b.agents
                 /\ Cardinality(status) = Cardinality(b.status)
                 /\ Cardinality(assignment) = Cardinality(b.assignment)

(***************************************************************************)
(* C10: in every reachable state both lists fetch_state returns are sorted *)
(* ascending by agent name, have equal length and hold exactly one entry   *)
(* for every agent of the agents relation.                                 *)
(***************************************************************************)
\* rows is strictly ascending by name and names exactly the agents
ListsAgentsOnce(rows) ==
    /\ \A i \in 1..(Len(rows) - 1) : StrLess(rows[i].name, rows[i + 1].name)
    /\ {rows[i].name : i \in DOMAIN rows} = {a.name : a \in agents}

C10_FetchStateSorted ==
    LET st == fetch_state(DB)
    IN  /\ ListsAgentsOnce(st.status)
        /\ ListsAgentsOnce(st.assignment)
        /\ Len(st.status) = Len(st.assignment)
        /\ Len(st.status) = Cardinality(agents)

\* The snapshot sent on connect after an agent was created and one renamed
C10_Witness ==
    /\ last.op = "connect"
    /\ last.sent[last.sender][1].data = fetch_state(DB)
    /\ [name |-> Vic] \in agents
    /\ [name |-> Zed] \in agents

(***************************************************************************)
(* C11: when the storage layer fails inside the transaction of update_cell *)
(* or rename_agent, every write of the transaction is rolled back, nothing *)
(* is broadcast, and exactly one error_msg is sent, to the requester only. *)
(***************************************************************************)
\* The last event's transaction was aborted by the storage layer: a
\* constraint violated by the rename cascade, or a number the column
\* cannot hold
StorageFailed ==
    /\ last.outcome = "raised"
    /\ \/ last.op = "rename_agent"
       \/ last.op = "update_cell" /\ last.data.field # "priority"

C11_StorageFailureReported ==
    StorageFailed =>
        /\ DB = last.before
        /\ \A i \in 1..Len(last.emits) : last.emits[i].to # "all"
        /\ OnlyErrorToSender

(***************************************************************************)
(* C13: a rename_agent event whose trimmed old and new names are the same  *)
(* non-empty name, whether or not an agent of that name exists, changes no *)
(* stored row and puts no message, neither agent_renamed nor error_msg, on *)
(* any connection's queue.                                                 *)
(***************************************************************************)
C13_RenameToSelfSilent ==
    (/\ last.op = "rename_agent"
     /\ last.data.old_name.t = "str"
     /\ last.data.new_name.t = "str"
     /\ NameOf(last.data.old_name) = NameOf(last.data.new_name)
     /\ NameOf(last.data.old_name) # <<>>)
    => /\ DB = last.before
       /\ last.emits = <<>>
       /\ \A k \in Conns : last.sent[k] = <<>>

\* A rename to itself of a name no agent bears, both clients connected
C13_Witness ==
    /\ last.op = "rename_agent"
    /\ last.data.old_name = StrV(Al)
    /\ last.data.new_name = StrV(Al)
    /\ CountAgents(DB, Al) = 0
    /\ connected = Conns

(***************************************************************************)
(* C16: an applied update_cell on (table, agent, field) leaves every row   *)
(* of every other agent as it was, in both relations; leaves the agent's   *)
(* row in the other relation as it was; and leaves every other column of   *)
(* the agent's row in the addressed relation as it was.  For an agent the  *)
(* event creates, "as it was" is the default row.  No agent but the        *)
(* addressed one is added or removed.                                      *)
(***************************************************************************)
\* The row keyed by name that relation table held in db, the default row
\* if db held none
RowBefore(db, table, name) ==
    IF RowsOf(db, table, name) # {} THEN CHOOSE r \in RowsOf(db, table, name) : TRUE
    ELSE IF table = "status"
    THEN [agent_name |-> name, backlog |-> 0, active |-> 0, priority |-> NoneV]
    ELSE [agent_name |-> name, easy_to_handle |-> 0, investigation |-> 0,
          autoclose_tickets |-> 0]

C16_EditTouchesOneCell ==
    (last.op = "update_cell" /\ last.outcome = "applied") =>
        LET b == last.before
            name == NameOf(last.data.agent)
            table == last.data.table
            field == last.data.field
            other == IF table = "status" THEN "assignment" ELSE "status"
        IN  /\ {a \in agents : a.name # name} = {a \in b.agents : a.name # name}
            /\ [name |-> name] \in agents
            /\ {r \in status : r.agent_name # name} = {r \in b.status : r.agent_name # name}
            /\ {r \in assignment : r.agent_name # name}
                   = {r \in b.assignment : r.agent_name # name}
            /\ RowsOf(DB, other, name) = {RowBefore(b, other, name)}
            /\ Cardinality(RowsOf(DB, table, name)) = 1
            /\ \A r \in RowsOf(DB, table, name) :
                   \A g \in (DOMAIN r) \ {field} : r[g] = RowBefore(b, table, name)[g]

\* A priority edit of an agent whose backlog an earlier edit had set to 5
C16_Witness ==
    /\ last.op = "update_cell"
    /\ last.outcome = "applied"
    /\ last.data.field = "priority"
    /\ \E r \in last.before.status : r.agent_name = Victor /\ r.backlog = 5
    /\ \E r \in status : r.agent_name = Victor /\ r.backlog = 5 /\ r.priority = StrV(<<"P", "1">>)

(***************************************************************************)
(* C17: every update_cell and rename_agent event ends in exactly one of    *)
(* three ways.  Applied: the write is committed and one broadcast reaches  *)
(* every connected client.  Rejected: the stored state is unchanged and    *)
(* one error_msg reaches the sender only.  Silent: nothing changes and     *)
(* nothing is sent, which happens only for a rename of a non-empty name to *)
(* itself.  So no event ends with neither a broadcast nor an error_msg,    *)
(* and nothing is broadcast unless the write was committed.                *)
(***************************************************************************)
\* The last event put exactly one message, of the given kind, on the queue
\* of every connected client and nothing on the others
BroadcastToAll(event) ==
    \A k \in Conns :
        IF k \in connected
        THEN Len(last.sent[k]) = 1 /\ last.sent[k][1].event = event
        ELSE last.sent[k] = <<>>

C17_EveryEventTerminates ==
    last.op \in {"update_cell", "rename_agent"} =>
        \/ /\ last.outcome = "applied"
           /\ BroadcastToAll(IF last.op = "update_cell" THEN "cell_updated" ELSE "agent_renamed")
        \/ /\ last.outcome = "rejected"
           /\ DB = last.before
           /\ OnlyErrorToSender
        \/ /\ last.outcome = "noop"
           /\ last.op = "rename_agent"
           /\ NameOf(last.data.old_name) = NameOf(last.data.new_name)
           /\ NameOf(last.data.old_name) # <<>>
           /\ DB = last.before
           /\ \A k \in Conns : last.sent[k] = <<>>

(***************************************************************************)
(* C19: no event removes an agent.  The number of agents never decreases;  *)
(* an applied update_cell adds the addressed agent if it was missing and   *)
(* no other; an applied rename_agent keeps the number, replacing exactly   *)
(* the old name by the new one; a connect and every event that is not      *)
(* applied leave the set of agents as it was.                              *)
(***************************************************************************)
C19_AgentsNeverLost ==
    last.op \in {"connect", "update_cell", "rename_agent"} =>
        LET b == last.before
        IN  /\ Cardinality(agents) >= Cardinality(b.agents)
            /\ (last.op = "update_cell" /\ last.outcome = "applied") =>
                   /\ agents = b.agents \cup {[name |-> NameOf(last.data.agent)]}
                   /\ Cardinality(agents) <= Cardinality(b.agents) + 1
            /\ (last.op = "rename_agent" /\ last.outcome = "applied") =>
                   LET old == [name |-> NameOf(last.data.old_name)]
                       new == [name |-> NameOf(last.data.new_name)]
                   IN  /\ old \in b.agents
                       /\ new \notin b.agents
                       /\ agents = (b.agents \ {old}) \cup {new}
                       /\ Cardinality(agents) = Cardinality(b.agents)
            /\ (last.op = "connect" \/ last.outcome # "applied") => agents = b.agents

\* A rename applied after an edit had added a fifth agent
C19_Witness ==
    /\ last.op = "rename_agent"
    /\ last.outcome = "applied"
    /\ Cardinality(last.before.agents) = 5
    /\ Cardinality(agents) = 5
    /\ agents # last.before.agents

(***************************************************************************)
(* C20: agent names are trimmed before they are validated or stored.       *)
(* Every stored agent name is non-empty and neither starts nor ends with   *)
(* whitespace; an applied update_cell addresses the agent named by its     *)
(* agent string without the surrounding whitespace, so two agent strings   *)
(* that differ only in surrounding whitespace never make two agents; and a *)
(* rename_agent whose names differ only in surrounding whitespace changes  *)
(* nothing, as a rename of a name to itself.                               *)
(***************************************************************************)
\* s without the whitespace around it: from its first to its last
\* character that is not whitespace
Core(s) ==
    LET inked == {i \in 1..Len(s) : s[i] \notin Whitespace}
    IN  IF inked = {} THEN <<>>
        ELSE SubSeq(s, CHOOSE i \in inked : \A j \in inked : i <= j,
                       CHOOSE i \in inked : \A j \in inked : i >= j)

C20_NamesTrimmed ==
    /\ \A a \in agents :
           /\ a.name # <<>>
           /\ a.name[1] \notin Whitespace
           /\ a.name[Len(a.name)] \notin Whitespace
    /\ (last.op = "update_cell" /\ last.outcome = "applied" /\ last.data.agent.t = "str") =>
           agents = last.before.agents \cup {[name |-> Core(last.data.agent.s)]}
    /\ (/\ last.op = "rename_agent"
        /\ last.data.old_name.t = "str"
        /\ last.data.new_name.t = "str"
        /\ Core(last.data.old_name.s) = Core(last.data.new_name.s)
        /\ Core(last.data.old_name.s) # <<>>)
       => last.outcome = "noop" /\ DB = last.before

\* An edit addressed to " Vic\t" after an edit addressed to "Vic" had
\* created the agent: no second agent appears
C20_Witness ==
    /\ last.op = "update_cell"
    /\ last.outcome = "applied"
    /\ last.data.agent.s # Vic
    /\ Core(last.data.agent.s) = Vic
    /\ [name |-> Vic] \in last.before.agents
    /\ agents = last.before.agents

(***************************************************************************)
(* C12: within one fetch_state() call init_db() is invoked at most once    *)
(* and the read is attempted at most twice: a read that fails is followed  *)
(* by init_db() and one retry, and if the retry fails too the call ends    *)
(* with the failure instead of recovering again.                           *)
(***************************************************************************)
C12_RetriedOnce ==
    /\ call.inits <= 1
    /\ call.reads <= 2

(***************************************************************************)
(* C14: init_db() seeds only an empty agents relation, and then with       *)
(* exactly the four default agents, each with an all-default status row    *)
(* and an all-default assignment row; called when the agents relation is   *)
(* not empty it changes no row, so a further call changes nothing and no   *)
(* edited, created or renamed agent is overwritten.                        *)
(***************************************************************************)
\* The database line 64 and lines 71-78 describe
SeededDb ==
    LET names == {Victor, Julio, Cindy, <<"F", "e", "l", "i", "p", "e">>}
    IN  [agents |-> {[name |-> n] : n \in names},
         status |-> {[agent_name |-> n, backlog |-> 0, active |-> 0, priority |-> NoneV]
                         : n \in names},
         assignment |-> {[agent_name |-> n, easy_to_handle |-> 0, investigation |-> 0,
                          autoclose_tickets |-> 0] : n \in names}]

C14_SeedOnlyWhenEmpty ==
    /\ last.op \in {"init", "init_db"} =>
           IF last.before.agents = {} THEN DB = SeededDb ELSE DB = last.before
    /\ agents # {} => init_db(DB) = DB

\* init_db() called, by a fetch_state() whose read failed, on relations
\* that hold an edited row and an agent an event created
C14_Witness ==
    /\ last.op = "init_db"
    /\ \E r \in last.before.assignment : r.agent_name = Vic
    /\ [name |-> Vic] \in agents
    /\ DB = last.before
    /\ DB # SeededDb

(***************************************************************************)
(* C15: when two valid update_cell events on the same cell are sent at     *)
(* once, the cell ends up holding the normalized value of the event        *)
(* handled last, and each of the two events puts one cell_updated message  *)
(* on the queue of every client connected when it is handled.              *)
(***************************************************************************)
\* The cell an update_cell payload addresses
CellOf(data) == <<NameOf(data.agent), data.table, data.field>>

\* The value a valid update_cell payload asks the cell to hold
Normalized(data) ==
    IF data.field = "priority" THEN ExpectedPriority(data.value)
    ELSE DigitsNat(NormalizeNumber(data.value))

\* Both events of the pair have been handled, and both were valid
PairHandled ==
    /\ Len(log) = 2
    /\ ValidEdit(log[1].data)
    /\ ValidEdit(log[2].data)

C15_LastCommitWins ==
    (PairHandled /\ CellOf(log[1].data) = CellOf(log[2].data)) =>
        LET data == log[2].data
        IN  /\ \E r \in RowsOf(DB, data.table, NameOf(data.agent)) :
                   r[data.field] = Normalized(data)
            /\ \A i \in 1..2 : \A k \in log[i].registry :
                   /\ Len(log[i].sent[k]) = 1
                   /\ log[i].sent[k][1].event = "cell_updated"
                   /\ log[i].sent[k][1].data.agent = NameOf(log[i].data.agent)
                   /\ log[i].sent[k][1].data.field = log[i].data.field

(***************************************************************************)
(* C18: two valid update_cell events on different cells commute: handled   *)
(* in either order from the same stored state they leave the same stored   *)
(* state, also when one or both name an agent that does not exist yet.     *)
(***************************************************************************)
C18_EditsCommute ==
    (PairHandled /\ CellOf(log[1].data) # CellOf(log[2].data)) => DB = shadow

\* Two columns of the row of an agent that did not exist when the two
\* events, the first events of the session, were sent
C18_Witness ==
    /\ Len(log) = 2
    /\ log[1].outcome = "applied"
    /\ log[2].outcome = "applied"
    /\ NameOf(log[1].data.agent) = Vic
    /\ NameOf(log[2].data.agent) = Vic
    /\ log[1].data.field # log[2].data.field
    /\ nEvents = 2
    /\ DB = shadow
    /\ \E r \in status : r.agent_name = Vic /\ r.active = 3 /\ r.priority = StrV(<<"P", "2">>)

====
